---- MODULE Spec2Model ----
(***************************************************************************)
(* State-machine model of the renderer-side WebSocketClient                *)
(* (src/unnamed/part_002): the socket handle, the connection flag, the     *)
(* reconnect policy, the heartbeat timers and the outbound message queue,  *)
(* driven by caller operations, socket events and timer callbacks.  The    *)
(* JavaScript runtime is single threaded, so every handler is one atomic   *)
(* action.                                                                 *)
(***************************************************************************)
EXTENDS Integers, Sequences, FiniteSets, TLC

\* ------------------------------------------------------------------ bounds
\* sockets created (new WebSocket(...) calls) plus envelopes passed to
\* sendMessage (caller sends and heartbeat pings) during one run
MaxWork == 3

\* ------------------------------------------------------- program constants
maxReconnectAttempts == 5
baseReconnectDelay == 1000
maxReconnectDelay == 30000
CLEAN_CLOSE == 1000
ABNORMAL_CLOSE == 1006
\* period of the heartbeat setInterval and delay of the pong setTimeout
heartbeatPeriod == 30000
pongTimeoutDelay == 5000

NULL == 0
\* this.heartbeatTimeout = null: no handle, written as a handle of no ping
NO_TIMEOUT == <<NULL, NULL>>
\* the constructor creates the first socket, so every run has at least one;
\* an unattended run of failed reconnects creates up to maxReconnectAttempts
\* more, and one more socket lets a caller's connect() take part in it
RetrySockets == maxReconnectAttempts + 2
MaxSockets == IF MaxWork > RetrySockets THEN MaxWork ELSE RetrySockets
MaxMsgs == MaxWork - 1
Sockets == 1..MaxSockets
MsgIds == 1..MaxMsgs
\* a pong timeout is armed for a ping by a tick of a heartbeat interval: its
\* handle is <<id of the ping, handle of the interval>>
TimeoutIds == MsgIds \X Sockets
\* 1006 stands for every close code other than the clean one
CloseCodes == {CLEAN_CLOSE, ABNORMAL_CLOSE}
ReadyStates == {"NONE", "CONNECTING", "OPEN", "CLOSING", "CLOSED"}
\* envelope kinds of the typed senders, the heartbeat, and a raw sendMessage
CallerTypes == {"text_input", "start_listening", "stop_listening", "custom"}
MsgTypes == CallerTypes \cup {"ping", "audio_data"}

\* the handler functions a caller may register, and a field holding none
Callbacks == {"A", "B"}
NoCallback == "null"

\* the callback fields of WebSocketClient
CallbackSlots == {"onConnectionChange", "onTranscriptionUpdate",
                  "onResponseReceived", "onError"}

\* the message types handleMessage of WebSocketClient has a case for
ClientTypes == {"transcription", "response", "audio_response", "status",
                "error", "pong"}

\* the message types handleMessage of PipecatWebSocketClient has a case for
PipecatEvents == {"status", "transcription", "response_text", "audio_started",
                  "audio_stopped", "error"}

\* the events PipecatWebSocketClient emits from its socket handlers, and every
\* event name a handler can be registered on
LifecycleEvents == {"connected", "disconnected"}
EventNames == PipecatEvents \cup LifecycleEvents

\* an inbound frame: event.data parses as JSON or not; a parsed message has a
\* type ("other": none of the above) and may or may not carry a data object
NotJSON == [parses |-> FALSE, type |-> "other", data |-> FALSE]
FramesOf(types) ==
    {NotJSON} \cup [parses : {TRUE}, type : types \cup {"other"}, data : BOOLEAN]

VARIABLES
    ws,                 \* this.ws: the current socket, NULL when none
    readyState,         \* readyState of every socket object created so far
    established,        \* live sockets whose handshake completed
    nSockets,           \* number of sockets created so far
    isConnected,        \* this.isConnected
    reconnectAttempts,  \* this.reconnectAttempts
    reconnectDelay,     \* this.reconnectDelay
    heartbeatInterval,  \* this.heartbeatInterval: handle or NULL
    heartbeatTimeout,   \* this.heartbeatTimeout: handle or NO_TIMEOUT
    intervals,          \* setInterval timers still running
    timeouts,           \* pong setTimeout timers still pending
    reconnectTimers,    \* pending reconnect setTimeout timers -> their delay
    messageQueue,       \* this.messageQueue
    sent,               \* frames handed to ws.send, in order: <<id, how>>
    nextId,             \* id given to the next envelope passed to sendMessage
    status,             \* last value passed to updateConnectionStatus
    hung,               \* the event loop is stuck inside a handler
    userDisconnected,   \* disconnect() was called and connect() not since
    failures,           \* non-clean closes since construction or the last open
    forced,             \* sockets the pong timeout callback called close() on
    unanswered,         \* pings with a timeout armed and no pong handled since
    callbacks,          \* the four on... callback fields of WebSocketClient
    calls,              \* callbacks invoked by the last inbound frame, in order
    readers,            \* FileReaders of sendAudioData that have not loaded yet
    eventHandlers,      \* PipecatWebSocketClient.eventHandlers
    emitted,            \* handlers invoked by the last Pipecat frame, in order
    dialled,            \* sockets created by a connect() call after disconnect()
    pipecat,            \* the fields and sockets of PipecatWebSocketClient
    last                \* what the last handler did

vars == <<ws, readyState, established, nSockets, isConnected, reconnectAttempts,
          reconnectDelay, heartbeatInterval, heartbeatTimeout, intervals,
          timeouts, reconnectTimers, messageQueue, sent, nextId,
          status, hung, userDisconnected, failures,
          forced, unanswered, callbacks, calls, readers, eventHandlers,
          emitted, dialled, pipecat, last>>

\* what the connection handlers of WebSocketClient never touch
ioVars == <<callbacks, calls, readers, eventHandlers, emitted, dialled,
           pipecat>>

\* ----------------------------------------------------------------- helpers
Min(a, b) == IF a < b THEN a ELSE b

\* the record kept in `last`
Did(op, id, code, threw) ==
    [op |-> op, id |-> id, code |-> code, threw |-> threw]

\* an envelope; ok = FALSE when JSON.stringify / ws.send throws for it
Envelope(id, type, ok) == [id |-> id, type |-> type, ok |-> ok]

\* WebSocket.close(): a connecting or open socket starts closing, otherwise no-op
CloseSocket(rs, s) ==
    IF rs[s] \in {"CONNECTING", "OPEN"} THEN [rs EXCEPT ![s] = "CLOSING"] ELSE rs

\* isReady(): the client's own test for a usable connection
isReady == isConnected /\ ws # NULL /\ readyState[ws] = "OPEN"

\* the pings that armed the pong timeouts ts
Armed(ts) == {t[1] : t \in ts}

\* a pong answers the oldest ping still waiting for one: the pings left
AfterPong(ids) == {i \in ids : \E j \in ids : j < i}

\* the run may still create a socket or pass an envelope to sendMessage
WorkLeft == nSockets + (nextId - 1) < MaxWork

\* ------------------------------------------------------------ sendMessage
\* mutant of Push: unshift instead of push
PushFront(q, m) == <<m>> \o q

\* messageQueue.push(message)
Push(q, m) == Append(q, m)

\* sendMessage(message) evaluated with this.isConnected = conn, this.ws = w and
\* socket states rs, on queue q and transmitted frames out; `how` tells a
\* call made by flushMessageQueue ("flush") from any other ("direct").
\*   end = "sent"    ws.send succeeded, returns true
\*         "dropped" ws.send / JSON.stringify threw, caught, returns false
\*         "queued"  pushed on the queue, returns false
\*         "throw"   this.ws is null: reading readyState raises a TypeError
sendMessage(conn, w, rs, q, out, m, how) ==
    IF conn /\ w = NULL
    THEN [queue |-> q, sent |-> out, end |-> "throw"]
    ELSE IF conn /\ rs[w] = "OPEN"
    THEN IF m.ok
         THEN [queue |-> q, sent |-> Append(out, <<m.id, how>>), end |-> "sent"]
         ELSE [queue |-> q, sent |-> out, end |-> "dropped"]
    ELSE [queue |-> Push(q, m), sent |-> out, end |-> "queued"]

\* flushMessageQueue(): while the queue is not empty, shift the head and pass it
\* to sendMessage.  end = "done" when the loop exits, "throw" when sendMessage
\* raises, "hang" when sendMessage pushes the shifted head back: the connection
\* test is the same at every iteration, so the loop rotates the queue for ever
\* and the handler never returns (the queue is reported as it was found).
RECURSIVE flushMessageQueue(_, _, _, _, _)
flushMessageQueue(conn, w, rs, q, out) ==
    IF q = <<>>
    THEN [queue |-> q, sent |-> out, end |-> "done"]
    ELSE LET r == sendMessage(conn, w, rs, Tail(q), out, Head(q), "flush")
         IN  CASE r.end = "throw"  -> r
               [] r.end = "queued" -> [queue |-> q, sent |-> out, end |-> "hang"]
               [] OTHER -> flushMessageQueue(conn, w, rs, r.queue, r.sent)

\* ------------------------------------------------------------------- Init
\* the fields of a PipecatWebSocketClient that never failed, and the client
\* after its constructor: no socket yet, connect() is left to the caller
pipecatFresh ==
    [reconnectAttempts |-> 0, reconnectDelay |-> 1000, timer |-> NULL]

pipecatInit ==
    [ws |-> NULL, isConnected |-> FALSE,
     reconnectAttempts |-> pipecatFresh.reconnectAttempts,
     reconnectDelay |-> pipecatFresh.reconnectDelay,
     readyState |-> [s \in Sockets |-> "NONE"], opened |-> {},
     nSockets |-> 0, timers |-> {}, sent |-> <<>>, nextId |-> 1,
     refused |-> {}]

\* the state after the constructor: fields initialised, then init() -> connect()
Init ==
    /\ ws = 1
    /\ readyState = [s \in Sockets |-> IF s = 1 THEN "CONNECTING" ELSE "NONE"]
    /\ established = {}
    /\ nSockets = 1
    /\ isConnected = FALSE
    /\ reconnectAttempts = 0
    /\ reconnectDelay = baseReconnectDelay
    /\ heartbeatInterval = NULL
    /\ heartbeatTimeout = NO_TIMEOUT
    /\ intervals = {}
    /\ timeouts = {}
    /\ reconnectTimers = {}
    /\ messageQueue = <<>>
    /\ sent = <<>>
    /\ nextId = 1
    /\ status = "connecting"
    /\ hung = FALSE
    /\ userDisconnected = FALSE
    /\ failures = 0
    /\ forced = {}
    /\ unanswered = {}
    /\ callbacks = [k \in CallbackSlots |-> NoCallback]
    /\ calls = <<>>
    /\ readers = {}
    /\ eventHandlers = [e \in EventNames |-> <<>>]
    /\ pipecat = pipecatInit
    /\ emitted = <<>>
    /\ dialled = {}
    /\ last = Did("constructor", 1, 0, FALSE)

\* ---------------------------------------------------------------- connect
\* connect(): report 'connecting', create a socket, attach the four handlers.
\* There is no guard on the current socket: the previous one, if any, stays
\* alive with its handlers attached.  The catch branch is not reachable: the
\* WebSocket constructor throws only for a malformed URL and backendUrl is the
\* constant 'ws://localhost:8765'.
connect ==
    /\ nSockets' = nSockets + 1
    /\ ws' = nSockets + 1
    /\ readyState' = [readyState EXCEPT ![nSockets + 1] = "CONNECTING"]
    /\ status' = "connecting"
    /\ UNCHANGED <<established, isConnected, reconnectAttempts, reconnectDelay,
                   heartbeatInterval, heartbeatTimeout, intervals, timeouts,
                   messageQueue, sent, nextId, hung, failures, forced,
                   unanswered>>

\* the caller invokes connect()
connectCalled ==
    /\ ~hung
    /\ connect
    /\ userDisconnected' = FALSE
    /\ dialled' = IF userDisconnected THEN dialled \cup {nSockets + 1}
                  ELSE dialled
    /\ last' = Did("connect", nSockets + 1, 0, FALSE)
    /\ UNCHANGED <<reconnectTimers, callbacks, calls, readers, eventHandlers,
                   emitted, pipecat>>

CallConnect == WorkLeft /\ connectCalled

\* the setTimeout callback of scheduleReconnect fires: this.connect()
reconnectTimerFires(t) ==
    /\ t \in reconnectTimers
    /\ reconnectTimers' = reconnectTimers \ {t}
    /\ connect
    /\ last' = Did("reconnectTimer", t[1], 0, FALSE)
    /\ UNCHANGED <<userDisconnected, ioVars>>

ReconnectTimer(t) ==
    /\ ~hung
    /\ WorkLeft
    /\ reconnectTimerFires(t)

\* ------------------------------------------------------- heartbeat control
\* startHeartbeat() on the open of socket s: a new interval, handle stored
startHeartbeat(s) ==
    /\ heartbeatInterval' = s
    /\ intervals' = intervals \cup {s}

\* stopHeartbeat(): clear and forget the stored interval and timeout handles
stopHeartbeat ==
    /\ intervals' = intervals \ {heartbeatInterval}
    /\ heartbeatInterval' = NULL
    /\ timeouts' = timeouts \ {heartbeatTimeout}
    /\ heartbeatTimeout' = NO_TIMEOUT

\* ------------------------------------------------------------- handleOpen
\* mutant of handleOpen: the flush transmits the queue but leaves it in place
handleOpenKeepQueue(s) ==
    LET rs == [readyState EXCEPT ![s] = "OPEN"]
        f  == flushMessageQueue(TRUE, ws, rs, messageQueue, sent)
    IN  /\ readyState' = rs
        /\ established' = established \cup {s}
        /\ isConnected' = TRUE
        /\ reconnectAttempts' = 0
        /\ reconnectDelay' = baseReconnectDelay
        /\ status' = "connected"
        /\ startHeartbeat(s)
        /\ messageQueue' = messageQueue
        /\ sent' = f.sent
        /\ hung' = (f.end = "hang")
        /\ last' = Did("handleOpen", s, 0, f.end = "throw")
        /\ UNCHANGED <<ws, nSockets, heartbeatTimeout, timeouts,
                       reconnectTimers, nextId, userDisconnected, ioVars>>
        /\ failures' = 0
        /\ UNCHANGED <<forced, unanswered>>

\* mutant of handleOpen: the backoff delay is not reset
handleOpenKeepDelay(s) ==
    LET rs == [readyState EXCEPT ![s] = "OPEN"]
        f  == flushMessageQueue(TRUE, ws, rs, messageQueue, sent)
    IN  /\ readyState' = rs
        /\ established' = established \cup {s}
        /\ isConnected' = TRUE
        /\ reconnectAttempts' = 0
        /\ reconnectDelay' = reconnectDelay
        /\ status' = "connected"
        /\ startHeartbeat(s)
        /\ messageQueue' = f.queue
        /\ sent' = f.sent
        /\ hung' = (f.end = "hang")
        /\ last' = Did("handleOpen", s, 0, f.end = "throw")
        /\ UNCHANGED <<ws, nSockets, heartbeatTimeout, timeouts,
                       reconnectTimers, nextId, userDisconnected, ioVars>>
        /\ failures' = 0
        /\ UNCHANGED <<forced, unanswered>>

\* the socket s reports 'open': handleOpen()
handleOpen(s) ==
    LET rs == [readyState EXCEPT ![s] = "OPEN"]
        f  == flushMessageQueue(TRUE, ws, rs, messageQueue, sent)
    IN  /\ readyState' = rs
        /\ established' = established \cup {s}
        /\ isConnected' = TRUE
        /\ reconnectAttempts' = 0
        /\ reconnectDelay' = baseReconnectDelay
        /\ status' = "connected"
        /\ startHeartbeat(s)
        /\ messageQueue' = f.queue
        /\ sent' = f.sent
        /\ hung' = (f.end = "hang")
        /\ last' = Did("handleOpen", s, 0, f.end = "throw")
        /\ UNCHANGED <<ws, nSockets, heartbeatTimeout, timeouts,
                       reconnectTimers, nextId, userDisconnected, ioVars>>
        /\ failures' = 0
        /\ UNCHANGED <<forced, unanswered>>

SocketOpen(s) ==
    /\ ~hung
    /\ readyState[s] = "CONNECTING"
    /\ handleOpen(s)

\* ------------------------------------------------------------ handleClose
\* mutant of ShouldReconnect: the close code is not looked at
AlwaysReconnect(code) == TRUE

\* the reconnect decision of handleClose: event.code !== 1000
ShouldReconnect(code) == code # CLEAN_CLOSE

\* mutant of scheduleReconnect: the doubled delay is not capped
scheduleReconnectNoCap(s) ==
    IF reconnectAttempts >= maxReconnectAttempts
    THEN /\ status' = "failed"
         /\ UNCHANGED <<reconnectAttempts, reconnectTimers, reconnectDelay>>
    ELSE /\ status' = "disconnected"
         /\ reconnectAttempts' = reconnectAttempts + 1
         /\ reconnectTimers' = reconnectTimers \cup {<<s, reconnectDelay>>}
         /\ reconnectDelay' = reconnectDelay * 2

\* mutant of scheduleReconnect: the delay is doubled before the timer is set
scheduleReconnectDoubleFirst(s) ==
    IF reconnectAttempts >= maxReconnectAttempts
    THEN /\ status' = "failed"
         /\ UNCHANGED <<reconnectAttempts, reconnectTimers, reconnectDelay>>
    ELSE /\ status' = "disconnected"
         /\ reconnectAttempts' = reconnectAttempts + 1
         /\ reconnectDelay' = Min(reconnectDelay * 2, maxReconnectDelay)
         /\ reconnectTimers' = reconnectTimers \cup {<<s, reconnectDelay'>>}

\* mutant of scheduleReconnect: the attempt limit is compared with >
scheduleReconnectOneMore(s) ==
    IF reconnectAttempts > maxReconnectAttempts
    THEN /\ status' = "failed"
         /\ UNCHANGED <<reconnectAttempts, reconnectTimers, reconnectDelay>>
    ELSE /\ status' = "disconnected"
         /\ reconnectAttempts' = reconnectAttempts + 1
         /\ reconnectTimers' = reconnectTimers \cup {<<s, reconnectDelay>>}
         /\ reconnectDelay' = Min(reconnectDelay * 2, maxReconnectDelay)

\* mutant of scheduleReconnect: the attempt limit is not tested
scheduleReconnectNoLimit(s) ==
    /\ status' = "disconnected"
    /\ reconnectAttempts' = reconnectAttempts + 1
    /\ reconnectTimers' = reconnectTimers \cup {<<s, reconnectDelay>>}
    /\ reconnectDelay' = Min(reconnectDelay * 2, maxReconnectDelay)

\* scheduleReconnect() called from the close handler of socket s
scheduleReconnect(s) ==
    IF reconnectAttempts >= maxReconnectAttempts
    THEN /\ status' = "failed"
         /\ UNCHANGED <<reconnectAttempts, reconnectTimers, reconnectDelay>>
    ELSE /\ status' = "disconnected"
         /\ reconnectAttempts' = reconnectAttempts + 1
         /\ reconnectTimers' = reconnectTimers \cup {<<s, reconnectDelay>>}
         /\ reconnectDelay' = Min(reconnectDelay * 2, maxReconnectDelay)

\* handleClose(event) for the close event of socket s carrying `code`
handleClose(s, code) ==
    /\ readyState' = [readyState EXCEPT ![s] = "CLOSED"]
    /\ established' = established \ {s}
    /\ isConnected' = FALSE
    /\ stopHeartbeat
    /\ IF ShouldReconnect(code)
       THEN scheduleReconnect(s)
       ELSE /\ status' = "disconnected"
            /\ UNCHANGED <<reconnectAttempts, reconnectTimers, reconnectDelay>>
    /\ last' = Did("handleClose", s, code, FALSE)
    /\ failures' = IF code # CLEAN_CLOSE THEN failures + 1 ELSE failures
    /\ unanswered' = unanswered \cap Armed(timeouts')
    /\ UNCHANGED forced
    /\ UNCHANGED <<ws, nSockets, messageQueue, sent, nextId, hung,
                   userDisconnected, ioVars>>

\* a socket that never completed its handshake can only close abnormally
SocketClose(s, code) ==
    /\ ~hung
    /\ readyState[s] \in {"CONNECTING", "OPEN", "CLOSING"}
    /\ code \in (IF s \in established THEN CloseCodes ELSE {ABNORMAL_CLOSE})
    /\ handleClose(s, code)

\* ------------------------------------- PipecatWebSocketClient.attemptReconnect
\* (src/voice-assistant/renderer/websocket-client.js) the reconnect policy of
\* the second client, as a function of its fields: count the attempt, set the
\* timer with the current delay, then double the delay up to pipecatMaxDelay
pipecatMaxDelay == 30000
attemptReconnect(c) ==
    [reconnectAttempts |-> c.reconnectAttempts + 1,
     timer             |-> c.reconnectDelay,
     reconnectDelay    |-> Min(c.reconnectDelay * 2, pipecatMaxDelay)]

\* the fields after k consecutive failed attempts of a fresh client
RECURSIVE pipecatAfter(_)
pipecatAfter(k) ==
    IF k = 0 THEN pipecatFresh ELSE attemptReconnect(pipecatAfter(k - 1))

\* ------------------------------------------------------------ handleError
\* the socket s reports 'error': handleError()
handleError(s) ==
    /\ status' = "error"
    /\ last' = Did("handleError", s, 0, FALSE)
    /\ UNCHANGED <<ws, readyState, established, nSockets, isConnected,
                   reconnectAttempts, reconnectDelay, heartbeatInterval,
                   heartbeatTimeout, intervals, timeouts,
                   reconnectTimers, messageQueue, sent, nextId, hung,
                   userDisconnected, ioVars, failures, forced, unanswered>>

SocketError(s) ==
    /\ ~hung
    /\ readyState[s] \in {"CONNECTING", "OPEN", "CLOSING"}
    /\ handleError(s)

\* -------------------------------------------------------------- heartbeat
\* a tick of interval i comes heartbeatPeriod after the previous one: a pong
\* timeout armed by the previous tick, due pongTimeoutDelay after it, has fired
\* or been cancelled by then
TickDue(i) ==
    pongTimeoutDelay < heartbeatPeriod => ~\E t \in timeouts : t[2] = i

\* one tick of the setInterval callback of startHeartbeat, interval handle i:
\* if connected, sendMessage({type: 'ping'}) and arm a new pong timeout whose
\* handle overwrites this.heartbeatTimeout
heartbeatTickFires(i) ==
    /\ i \in intervals
    /\ TickDue(i)
    /\ IF isConnected
       THEN /\ LET r == sendMessage(isConnected, ws, readyState, messageQueue,
                                    sent, Envelope(nextId, "ping", TRUE), "direct")
               IN  /\ messageQueue' = r.queue
                   /\ sent' = r.sent
                   /\ nextId' = nextId + 1
                   /\ IF r.end = "throw"
                      THEN UNCHANGED <<heartbeatTimeout, timeouts, unanswered>>
                      ELSE /\ heartbeatTimeout' = <<nextId, i>>
                           /\ timeouts' = timeouts \cup {<<nextId, i>>}
                           /\ unanswered' = unanswered \cup {nextId}
                   /\ last' = Did("heartbeatTick", i, 0, r.end = "throw")
       ELSE /\ last' = Did("heartbeatTick", i, 0, FALSE)
            /\ UNCHANGED <<messageQueue, sent, nextId, heartbeatTimeout,
                           timeouts, unanswered>>
    /\ UNCHANGED <<ws, readyState, established, nSockets, isConnected,
                   reconnectAttempts, reconnectDelay, heartbeatInterval,
                   intervals, reconnectTimers, status, hung, userDisconnected,
                   ioVars, failures, forced>>

HeartbeatTick(i) ==
    /\ ~hung
    /\ isConnected => WorkLeft
    /\ heartbeatTickFires(i)

\* the pong setTimeout callback t fires: this.ws.close()
PongTimeout(t) ==
    /\ ~hung
    /\ t \in timeouts
    /\ timeouts' = timeouts \ {t}
    /\ IF ws = NULL
       THEN UNCHANGED <<readyState, forced>>
       ELSE /\ readyState' = CloseSocket(readyState, ws)
            /\ forced' = IF readyState'[ws] # readyState[ws]
                          THEN forced \cup {ws} ELSE forced
    /\ unanswered' = unanswered \ {t[1]}
    /\ last' = Did("pongTimeout", t[1], 0, ws = NULL)
    /\ UNCHANGED <<ws, established, nSockets, isConnected, reconnectAttempts,
                   reconnectDelay, heartbeatInterval, heartbeatTimeout,
                   intervals, reconnectTimers, messageQueue, sent,
                   nextId, status, hung, userDisconnected, ioVars, failures>>

\* handlePong(): clear the stored pong timeout
handlePong ==
    /\ IF heartbeatTimeout # NO_TIMEOUT
       THEN /\ timeouts' = timeouts \ {heartbeatTimeout}
            /\ heartbeatTimeout' = NO_TIMEOUT
       ELSE UNCHANGED <<timeouts, heartbeatTimeout>>

\* ------------------------------------------------------- inbound dispatch
\* the outcome of a message handler: the callbacks it invoked, in order, and
\* whether it raised
Outcome(cs, threw) == [calls |-> cs, threw |-> threw]

\* mutant of handleResponse: the transcription callback is the one invoked
handleResponseOther(cb, f) ==
    IF cb.onTranscriptionUpdate = NoCallback THEN Outcome(<<>>, FALSE)
    ELSE IF ~f.data THEN Outcome(<<>>, TRUE)
    ELSE Outcome(<<<<"onTranscriptionUpdate", cb.onTranscriptionUpdate>>>>,
                 FALSE)

\* handleTranscription(data): with a callback set, read data.text (a TypeError
\* when the message has no data) and invoke the callback
handleTranscription(cb, f) ==
    IF cb.onTranscriptionUpdate = NoCallback THEN Outcome(<<>>, FALSE)
    ELSE IF ~f.data THEN Outcome(<<>>, TRUE)
    ELSE Outcome(<<<<"onTranscriptionUpdate", cb.onTranscriptionUpdate>>>>,
                 FALSE)

\* handleResponse(data)
handleResponse(cb, f) ==
    IF cb.onResponseReceived = NoCallback THEN Outcome(<<>>, FALSE)
    ELSE IF ~f.data THEN Outcome(<<>>, TRUE)
    ELSE Outcome(<<<<"onResponseReceived", cb.onResponseReceived>>>>, FALSE)

\* handleAudioResponse(data): reads data.audio_data and plays it; no callback
handleAudioResponse(cb, f) == Outcome(<<>>, ~f.data)

\* handleStatusUpdate(data): logs
handleStatusUpdate(cb, f) == Outcome(<<>>, FALSE)

\* handleBackendError(data): with a callback set, read data.message and invoke
handleBackendError(cb, f) ==
    IF cb.onError = NoCallback THEN Outcome(<<>>, FALSE)
    ELSE IF ~f.data THEN Outcome(<<>>, TRUE)
    ELSE Outcome(<<<<"onError", cb.onError>>>>, FALSE)

\* mutant of caught: the exception is reported to the error callback
caughtReported(cb) ==
    Outcome(IF cb.onError = NoCallback THEN <<>>
            ELSE <<<<"onError", cb.onError>>>>, TRUE)

\* the catch block of handleMessage: log the exception
caught(cb) == Outcome(<<>>, TRUE)

\* mutant of unknownType: the type is reported to the error callback
unknownTypeReported(cb) ==
    Outcome(IF cb.onError = NoCallback THEN <<>>
            ELSE <<<<"onError", cb.onError>>>>, FALSE)

\* the default branch of the switch: log the type
unknownType(cb) == Outcome(<<>>, FALSE)

\* the try block of handleMessage for every type but 'pong': JSON.parse, then
\* the switch on message.type; whatever is raised inside is caught
dispatch(cb, f) ==
    IF ~f.parses THEN caught(cb)
    ELSE LET r == CASE f.type = "transcription"  -> handleTranscription(cb, f)
                    [] f.type = "response"       -> handleResponse(cb, f)
                    [] f.type = "audio_response" -> handleAudioResponse(cb, f)
                    [] f.type = "status"         -> handleStatusUpdate(cb, f)
                    [] f.type = "error"          -> handleBackendError(cb, f)
                    [] OTHER                     -> unknownType(cb)
         IN  IF r.threw THEN caught(cb) ELSE r

\* the record kept in `last` for an inbound frame: the frame, whether an
\* exception was caught, and whether the frame before it was discarded
Heard(op, s, f, threw) ==
    [op |-> op, id |-> s, code |-> 0, threw |-> threw, frame |-> f,
     afterDiscard |-> last.op = "handleMessage" /\ last.threw]

\* handleMessage(event) for the frame f
handleMessage(s, f) ==
    IF f.parses /\ f.type = "pong"
    THEN /\ handlePong
         /\ unanswered' = AfterPong(unanswered) \cap Armed(timeouts')
         /\ calls' = <<>>
         /\ last' = Did("handlePong", s, 0, FALSE)
    ELSE /\ calls' = dispatch(callbacks, f).calls
         /\ last' = Heard("handleMessage", s, f, dispatch(callbacks, f).threw)
         /\ UNCHANGED <<timeouts, heartbeatTimeout, unanswered>>

\* an established socket s delivers the frame f
ReceiveFrame(s, f) ==
    /\ ~hung
    /\ s \in established
    /\ readyState[s] \in {"OPEN", "CLOSING"}
    /\ handleMessage(s, f)
    /\ UNCHANGED <<ws, readyState, established, nSockets, isConnected,
                   reconnectAttempts, reconnectDelay, heartbeatInterval,
                   intervals, reconnectTimers, messageQueue, sent, nextId,
                   status, hung, userDisconnected, failures, forced,
                   callbacks, readers, eventHandlers, emitted, dialled,
                   pipecat>>

\* an established socket s delivers a 'pong' frame: handleMessage -> handlePong
ReceivePong(s) ==
    ReceiveFrame(s, [parses |-> TRUE, type |-> "pong", data |-> FALSE])

\* set...Callback(callback): one assignment to the field of that kind
setCallback(k, c) == callbacks' = [callbacks EXCEPT ![k] = c]

\* the caller registers c for kind k
CallSetCallback(k, c) ==
    /\ ~hung
    /\ setCallback(k, c)
    /\ last' = Did("setCallback", 0, 0, FALSE)
    /\ UNCHANGED <<ws, readyState, established, nSockets, isConnected,
                   reconnectAttempts, reconnectDelay, heartbeatInterval,
                   heartbeatTimeout, intervals, timeouts, reconnectTimers,
                   messageQueue, sent, nextId, status, hung, userDisconnected,
                   failures, forced, unanswered, calls, readers, eventHandlers,
                   emitted, dialled, pipecat>>

\* ------------------------------------------- PipecatWebSocketClient events
\* on(event, handler): push the handler on the event's array
on(h, e, c) == [h EXCEPT ![e] = Append(@, c)]

\* off(event, handler): filter the handler out of the event's array
off(h, e, c) == [h EXCEPT ![e] = SelectSeq(@, LAMBDA x : x # c)]

\* mutant of emit: the handlers are called without try / catch, so that the
\* first handler that throws ends the loop and the exception leaves emit
emitNoCatch(h, e, bad) ==
    LET hs == h[e]
        stop == {i \in 1..Len(hs) : hs[i] \in bad}
        n == IF stop = {} THEN Len(hs)
             ELSE CHOOSE i \in stop : \A j \in stop : i <= j
    IN  [calls |-> [i \in 1..n |-> <<e, hs[i]>>], threw |-> stop # {}]

\* emit(event, data): call every handler of the event, in array order, each in
\* its own try / catch; bad are the handlers that throw when called.  calls
\* are the handlers invoked, threw tells whether an exception leaves emit.
emit(h, e, bad) ==
    [calls |-> [i \in 1..Len(h[e]) |-> <<e, h[e][i]>>], threw |-> FALSE]

\* handleMessage(message) of PipecatWebSocketClient: emit the event named by
\* the type, or warn about an unknown type
pipecatHandleMessage(h, f, bad) ==
    IF f.type \in PipecatEvents THEN emit(h, f.type, bad)
    ELSE [calls |-> <<>>, threw |-> FALSE]

\* ws.onmessage of PipecatWebSocketClient: JSON.parse then handleMessage, both
\* inside one try / catch that ends whatever either of them throws
pipecatOnMessage(h, f, bad) ==
    IF f.parses THEN pipecatHandleMessage(h, f, bad).calls ELSE <<>>

\* what the actions of PipecatWebSocketClient leave alone
clientVars == <<ws, readyState, established, nSockets, isConnected,
                reconnectAttempts, reconnectDelay, heartbeatInterval,
                heartbeatTimeout, intervals, timeouts, reconnectTimers,
                messageQueue, sent, nextId, status, hung, userDisconnected,
                failures, forced, unanswered, callbacks, calls, readers,
                dialled>>

\* handlers registered on all events together
Registered(h) == Len(h["status"]) + Len(h["transcription"])
                 + Len(h["response_text"]) + Len(h["audio_started"])
                 + Len(h["audio_stopped"]) + Len(h["error"])
                 + Len(h["connected"]) + Len(h["disconnected"])

\* the record kept in `last` for an operation of PipecatWebSocketClient
PipecatDid(op, id, code, ret) ==
    [op |-> op, id |-> id, code |-> code, threw |-> FALSE, ret |-> ret]

\* the caller registers handler c for event e
PipecatOn(e, c) ==
    /\ Registered(eventHandlers) < Cardinality(Callbacks)
    /\ eventHandlers' = on(eventHandlers, e, c)
    /\ last' = Did("on", 0, 0, FALSE)
    /\ UNCHANGED <<clientVars, emitted, pipecat>>

\* the caller removes handler c from event e
PipecatOff(e, c) ==
    /\ eventHandlers' = off(eventHandlers, e, c)
    /\ last' = [op |-> "off", id |-> 0, code |-> 0, threw |-> FALSE,
                event |-> e, handler |-> c]
    /\ UNCHANGED <<clientVars, emitted, pipecat>>

\* a socket s of PipecatWebSocketClient that has opened delivers the frame f
\* while the handlers in bad throw; nothing leaves ws.onmessage
PipecatFrame(s, f, bad) ==
    /\ pipecat.readyState[s] \in {"OPEN", "CLOSING"}
    /\ s \in pipecat.opened
    /\ emitted' = pipecatOnMessage(eventHandlers, f, bad)
    /\ last' = [op |-> "pipecatMessage", id |-> s, code |-> 0,
                threw |-> FALSE, frame |-> f, bad |-> bad]
    /\ UNCHANGED <<clientVars, eventHandlers, pipecat>>

\* ------------------------------------ PipecatWebSocketClient connection
pipecatMaxAttempts == 5

\* connect(): return when the socket is open, else create a socket, store it
\* and attach the four handlers
pipecatConnect(p) ==
    IF p.ws # NULL /\ p.readyState[p.ws] = "OPEN" THEN p
    ELSE [p EXCEPT !.nSockets = @ + 1, !.ws = p.nSockets + 1,
                   !.readyState[p.nSockets + 1] = "CONNECTING"]

\* mutant of pipecatSend: the isConnected flag is not tested
pipecatSendAnyway(p) ==
    IF p.ws = NULL
    THEN [p EXCEPT !.nextId = @ + 1, !.refused = @ \cup {p.nextId}]
    ELSE IF p.readyState[p.ws] = "OPEN"
    THEN [p EXCEPT !.sent = Append(@, p.nextId), !.nextId = @ + 1]
    ELSE [p EXCEPT !.nextId = @ + 1]

\* send(type, data): not connected, warn and return false; else ws.send, which
\* transmits on an open socket, throws (caught) on a connecting one and
\* discards on a closing or closed one.  The call is numbered by nextId, and
\* the numbers of the calls that returned false at the test are kept in refused.
pipecatSend(p) ==
    IF ~p.isConnected \/ p.ws = NULL
    THEN [p EXCEPT !.nextId = @ + 1, !.refused = @ \cup {p.nextId}]
    ELSE IF p.readyState[p.ws] = "OPEN"
    THEN [p EXCEPT !.sent = Append(@, p.nextId), !.nextId = @ + 1]
    ELSE [p EXCEPT !.nextId = @ + 1]

\* what send returns
pipecatSendReturns(p) ==
    IF ~p.isConnected \/ p.ws = NULL THEN FALSE
    ELSE p.readyState[p.ws] # "CONNECTING"

\* ws.onopen of socket s: set the flag, reset the backoff, emit 'connected'
\* and, unless emit threw, send 'get_status'
pipecatOnOpen(p, s, threw) ==
    LET q == [p EXCEPT !.readyState[s] = "OPEN", !.opened = @ \cup {s},
                       !.isConnected = TRUE,
                       !.reconnectAttempts = pipecatFresh.reconnectAttempts,
                       !.reconnectDelay = pipecatFresh.reconnectDelay]
    IN  IF threw THEN q ELSE pipecatSend(q)

\* mutant of pipecatShouldReconnect: the attempt count is not tested
pipecatAlwaysReconnect(p, code) == code # CLEAN_CLOSE

\* the reconnect test of ws.onclose
pipecatShouldReconnect(p, code) ==
    code # CLEAN_CLOSE /\ p.reconnectAttempts < pipecatMaxAttempts

\* ws.onclose of socket s with the close code: clear the flag, emit
\* 'disconnected', and, unless emit threw, attemptReconnect when the test
\* passes
pipecatOnClose(p, s, code, threw) ==
    LET q == [p EXCEPT !.readyState[s] = "CLOSED", !.isConnected = FALSE]
        r == attemptReconnect(q)
    IN  IF ~threw /\ pipecatShouldReconnect(q, code)
        THEN [q EXCEPT !.reconnectAttempts = r.reconnectAttempts,
                       !.reconnectDelay = r.reconnectDelay,
                       !.timers = @ \cup {<<s, r.timer>>}]
        ELSE q

\* disconnect(): close the socket with code 1000 and drop it, clear the flag
pipecatDisconnect(p) ==
    IF p.ws # NULL
    THEN [p EXCEPT !.readyState = CloseSocket(@, p.ws), !.ws = NULL,
                   !.isConnected = FALSE]
    ELSE [p EXCEPT !.isConnected = FALSE]

\* the caller calls connect()
PipecatCallConnect ==
    /\ pipecat' = pipecatConnect(pipecat)
    /\ last' = PipecatDid("pipecatConnect", pipecat'.ws, 0, TRUE)
    /\ UNCHANGED <<clientVars, eventHandlers, emitted>>

\* the setTimeout callback of attemptReconnect fires: this.connect()
PipecatTimer(t) ==
    /\ t \in pipecat.timers
    /\ pipecat' = pipecatConnect([pipecat EXCEPT !.timers = @ \ {t}])
    /\ last' = PipecatDid("pipecatTimer", t[1], 0, TRUE)
    /\ UNCHANGED <<clientVars, eventHandlers, emitted>>

\* the caller calls disconnect()
PipecatCallDisconnect ==
    /\ pipecat' = pipecatDisconnect(pipecat)
    /\ last' = PipecatDid("pipecatDisconnect", pipecat.ws, 0, TRUE)
    /\ UNCHANGED <<clientVars, eventHandlers, emitted>>

\* the caller calls send (or startListening, stopListening, sendText,
\* getStatus, which return this.send(...))
PipecatCallSend ==
    /\ pipecat' = pipecatSend(pipecat)
    /\ last' = PipecatDid("pipecatSend", pipecat.nextId, 0,
                          pipecatSendReturns(pipecat))
    /\ UNCHANGED <<clientVars, eventHandlers, emitted>>

\* socket s reports 'open' while the handlers in bad throw
PipecatOpen(s, bad) ==
    /\ pipecat.readyState[s] = "CONNECTING"
    /\ LET r == emit(eventHandlers, "connected", bad)
       IN  /\ pipecat' = pipecatOnOpen(pipecat, s, r.threw)
           /\ emitted' = r.calls
           /\ last' = [PipecatDid("pipecatOpen", s, 0, TRUE)
                           EXCEPT !.threw = r.threw]
    /\ UNCHANGED <<clientVars, eventHandlers>>

\* socket s reports 'close' with the code while the handlers in bad throw
PipecatClose(s, code, bad) ==
    /\ pipecat.readyState[s] \in {"CONNECTING", "OPEN", "CLOSING"}
    /\ code \in (IF s \in pipecat.opened THEN CloseCodes
                 ELSE {ABNORMAL_CLOSE})
    /\ LET r == emit(eventHandlers, "disconnected", bad)
       IN  /\ pipecat' = pipecatOnClose(pipecat, s, code, r.threw)
           /\ emitted' = r.calls
           /\ last' = [PipecatDid("pipecatClose", s, code, TRUE)
                           EXCEPT !.threw = r.threw]
    /\ UNCHANGED <<clientVars, eventHandlers>>

\* socket s reports 'error' while the handlers in bad throw: emit 'error'
PipecatError(s, bad) ==
    /\ pipecat.readyState[s] \in {"CONNECTING", "OPEN", "CLOSING"}
    /\ LET r == emit(eventHandlers, "error", bad)
       IN  /\ emitted' = r.calls
           /\ last' = [op |-> "pipecatError", id |-> s, code |-> 0,
                       threw |-> r.threw, bad |-> bad]
    /\ UNCHANGED <<clientVars, eventHandlers, pipecat>>

\* ----------------------------------------------------------- caller sends
\* the caller passes the envelope of the given type to sendMessage
sendCalled(op, type, ok) ==
    /\ ~hung
    /\ LET r == sendMessage(isConnected, ws, readyState, messageQueue, sent,
                            Envelope(nextId, type, ok), "direct")
       IN  /\ messageQueue' = r.queue
           /\ sent' = r.sent
           /\ last' = Did(op, nextId, 0, r.end = "throw")
    /\ nextId' = nextId + 1
    /\ UNCHANGED <<ws, readyState, established, nSockets, isConnected,
                   reconnectAttempts, reconnectDelay, heartbeatInterval,
                   heartbeatTimeout, intervals, timeouts,
                   reconnectTimers, status, hung, userDisconnected, ioVars,
                   failures, forced, unanswered>>

Send(op, type, ok) == WorkLeft /\ sendCalled(op, type, ok)

\* sendMessage(message) with a caller-built envelope, serialisable or not
CallSendMessage(ok) == Send("sendMessage", "custom", ok)

\* sendTextMessage(text)
CallSendTextMessage == Send("sendTextMessage", "text_input", TRUE)

\* startListening()
CallStartListening == Send("startListening", "start_listening", TRUE)

\* stopListening()
CallStopListening == Send("stopListening", "stop_listening", TRUE)

\* ---------------------------------------------------------- sendAudioData
\* sendAudioData(audioBlob): not connected, warn and return false; connected,
\* start a FileReader on the blob and return true.  The call is numbered like
\* an envelope so that the envelope built at load time carries call order.
sendAudioData ==
    /\ readers' = IF isConnected THEN readers \cup {nextId} ELSE readers
    /\ nextId' = nextId + 1
    /\ last' = Did("sendAudioData", nextId, 0, FALSE)
    /\ UNCHANGED <<ws, readyState, established, nSockets, isConnected,
                   reconnectAttempts, reconnectDelay, heartbeatInterval,
                   heartbeatTimeout, intervals, timeouts, reconnectTimers,
                   messageQueue, sent, status, hung, userDisconnected,
                   failures, forced, unanswered, callbacks, calls,
                   eventHandlers, emitted, dialled, pipecat>>

CallSendAudioData ==
    /\ ~hung
    /\ WorkLeft
    /\ sendAudioData

\* reader.onload of the FileReader started by call r: build the audio_data
\* envelope and pass it to sendMessage.  Readers load in any order.
ReaderLoad(r) ==
    /\ ~hung
    /\ r \in readers
    /\ readers' = readers \ {r}
    /\ LET m == sendMessage(isConnected, ws, readyState, messageQueue, sent,
                            Envelope(r, "audio_data", TRUE), "direct")
       IN  /\ messageQueue' = m.queue
           /\ sent' = m.sent
           /\ last' = Did("readerLoad", r, 0, m.end = "throw")
    /\ UNCHANGED <<ws, readyState, established, nSockets, isConnected,
                   reconnectAttempts, reconnectDelay, heartbeatInterval,
                   heartbeatTimeout, intervals, timeouts, reconnectTimers,
                   nextId, status, hung, userDisconnected, failures, forced,
                   unanswered, callbacks, calls, eventHandlers, emitted,
                   dialled, pipecat>>

\* ------------------------------------------------------------- disconnect
\* disconnect(): with a socket, stop the heartbeat, close it with code 1000 and
\* drop the handle; then clear the flag and report 'disconnected'
disconnect ==
    /\ IF ws # NULL
       THEN /\ stopHeartbeat
            /\ readyState' = CloseSocket(readyState, ws)
            /\ ws' = NULL
       ELSE UNCHANGED <<intervals, heartbeatInterval, timeouts,
                        heartbeatTimeout, readyState, ws>>
    /\ isConnected' = FALSE
    /\ status' = "disconnected"
    /\ UNCHANGED <<established, nSockets, reconnectAttempts, reconnectDelay,
                   reconnectTimers, messageQueue, sent, nextId, hung>>

CallDisconnect ==
    /\ ~hung
    /\ disconnect
    /\ userDisconnected' = TRUE
    /\ unanswered' = unanswered \cap Armed(timeouts')
    /\ UNCHANGED <<failures, forced, ioVars>>
    /\ last' = Did("disconnect", ws, 0, FALSE)

\* getConnectionStatus(): 'disconnected' without a socket, otherwise the name
\* of the socket's readyState
getConnectionStatus ==
    IF ws = NULL THEN "disconnected"
    ELSE CASE readyState[ws] = "CONNECTING" -> "connecting"
           [] readyState[ws] = "OPEN"       -> "connected"
           [] readyState[ws] = "CLOSING"    -> "disconnecting"
           [] readyState[ws] = "CLOSED"     -> "disconnected"
           [] OTHER                         -> "unknown"

\* ------------------------------------------------------------------- Next
Next ==
    \/ CallConnect
    \/ CallDisconnect
    \/ \E ok \in BOOLEAN : CallSendMessage(ok)
    \/ CallSendTextMessage
    \/ CallStartListening
    \/ CallStopListening
    \/ \E s \in Sockets : SocketOpen(s)
    \/ \E s \in Sockets, code \in CloseCodes : SocketClose(s, code)
    \/ \E s \in Sockets : SocketError(s)
    \/ \E s \in Sockets : ReceivePong(s)
    \/ \E i \in Sockets : HeartbeatTick(i)
    \/ \E t \in TimeoutIds : PongTimeout(t)
    \/ \E t \in reconnectTimers : ReconnectTimer(t)

Spec == Init /\ [][Next]_vars

\* ------------------------------------------------------------ retry runs
\* The client left to itself: the caller sends but calls neither connect()
\* nor disconnect(), as the renderer does.  The reconnect timer creates
\* sockets beyond the work budget, up to RetrySockets, so that
\* maxReconnectAttempts reconnects can be scheduled and fail.
RetryTimer(t) ==
    /\ ~hung
    /\ nSockets < RetrySockets
    /\ reconnectTimerFires(t)

NextRetry ==
    \/ \E ok \in BOOLEAN : CallSendMessage(ok)
    \/ CallSendTextMessage
    \/ CallStartListening
    \/ CallStopListening
    \/ \E s \in Sockets : SocketOpen(s)
    \/ \E s \in Sockets, code \in CloseCodes : SocketClose(s, code)
    \/ \E s \in Sockets : SocketError(s)
    \/ \E s \in Sockets : ReceivePong(s)
    \/ \E i \in Sockets : HeartbeatTick(i)
    \/ \E t \in TimeoutIds : PongTimeout(t)
    \/ \E t \in reconnectTimers : RetryTimer(t)

SpecRetry == Init /\ [][NextRetry]_vars

\* The same long runs with a caller that also calls connect(), and without
\* outbound messages and heartbeat ticks.
NextRetryCaller ==
    \/ CallConnect
    \/ \E s \in Sockets : SocketOpen(s)
    \/ \E s \in Sockets, code \in CloseCodes : SocketClose(s, code)
    \/ \E s \in Sockets : SocketError(s)
    \/ \E s \in Sockets : ReceivePong(s)
    \/ \E t \in reconnectTimers : RetryTimer(t)

SpecRetryCaller == Init /\ [][NextRetryCaller]_vars

\* --------------------------------------------------------- heartbeat runs
\* The heartbeat under every caller and socket event, without caller sends:
\* the pings are bounded on their own, so that two intervals can each send one.
BeatTick(i) ==
    /\ ~hung
    /\ isConnected => nextId <= MaxMsgs
    /\ heartbeatTickFires(i)

NextHeartbeat ==
    \/ CallConnect
    \/ CallDisconnect
    \/ \E s \in Sockets : SocketOpen(s)
    \/ \E s \in Sockets, code \in CloseCodes : SocketClose(s, code)
    \/ \E s \in Sockets : SocketError(s)
    \/ \E s \in Sockets : ReceivePong(s)
    \/ \E i \in Sockets : BeatTick(i)
    \/ \E t \in TimeoutIds : PongTimeout(t)
    \/ \E t \in reconnectTimers : ReconnectTimer(t)

SpecHeartbeat == Init /\ [][NextHeartbeat]_vars

\* ------------------------------------------------------------ type sanity
\* inbound traffic of WebSocketClient up to the first reconnection: frames of
\* every kind arrive on the constructor's socket while the caller registers
\* callbacks, the heartbeat runs and the socket opens, fails and closes
NextDispatch ==
    \/ \E k \in CallbackSlots, c \in Callbacks : CallSetCallback(k, c)
    \/ \E s \in Sockets : \E f \in FramesOf(ClientTypes) : ReceiveFrame(s, f)
    \/ \E s \in Sockets : SocketOpen(s)
    \/ \E s \in Sockets, code \in CloseCodes : SocketClose(s, code)
    \/ \E s \in Sockets : SocketError(s)
    \/ \E i \in intervals : HeartbeatTick(i)
    \/ \E t \in timeouts : PongTimeout(t)

SpecDispatch == Init /\ [][NextDispatch]_vars

\* the run may still create a Pipecat socket, or number a send call
PipecatSocketsLeft == pipecat.nSockets < MaxWork - 1
PipecatSendsLeft == pipecat.nextId <= MaxWork

\* inbound traffic of PipecatWebSocketClient on its first connection: the
\* caller connects, registers and removes handlers of message events, and
\* frames of every kind arrive on the socket once it has opened
NextPipecat ==
    \/ \E e \in PipecatEvents, c \in Callbacks : PipecatOn(e, c)
    \/ \E e \in PipecatEvents, c \in Callbacks : PipecatOff(e, c)
    \/ \E s \in Sockets, f \in FramesOf(PipecatEvents) :
          \E bad \in SUBSET Callbacks : PipecatFrame(s, f, bad)
    \/ pipecat.ws = NULL /\ PipecatCallConnect
    \/ \E s \in Sockets, bad \in SUBSET Callbacks : PipecatOpen(s, bad)
    \/ \E s \in Sockets, bad \in SUBSET Callbacks : PipecatError(s, bad)

SpecPipecat == Init /\ [][NextPipecat]_vars

\* the connection of PipecatWebSocketClient: the caller connects, disconnects
\* and sends while sockets open, fail and close and reconnect timers fire
NextPipecatLink ==
    \/ PipecatSocketsLeft /\ PipecatCallConnect
    \/ PipecatCallDisconnect
    \/ PipecatSendsLeft /\ PipecatCallSend
    \/ \E s \in Sockets, bad \in {{}} : PipecatOpen(s, bad)
    \/ \E s \in Sockets, code \in CloseCodes, bad \in {{}} :
          PipecatClose(s, code, bad)
    \/ \E s \in Sockets, bad \in {{}} : PipecatError(s, bad)
    \/ \E t \in pipecat.timers : PipecatSocketsLeft /\ PipecatTimer(t)

SpecPipecatLink == Init /\ [][NextPipecatLink]_vars

\* (no handler is registered in these two specifications, so none throws)
\* the reconnect policy of PipecatWebSocketClient followed to its limit: the
\* caller connects when the client has nothing under way (no live socket, no
\* timer pending), sockets open and close, reconnect timers fire
PipecatRetryLeft == pipecat.nSockets < RetrySockets

PipecatIdle ==
    /\ pipecat.timers = {}
    /\ \A s \in Sockets : pipecat.readyState[s] \in {"NONE", "CLOSED"}

NextPipecatRetry ==
    \/ PipecatRetryLeft /\ PipecatIdle /\ PipecatCallConnect
    \/ \E s \in Sockets, bad \in {{}} : PipecatOpen(s, bad)
    \/ \E s \in Sockets, code \in CloseCodes, bad \in {{}} :
          PipecatClose(s, code, bad)
    \/ \E t \in pipecat.timers : PipecatRetryLeft /\ PipecatTimer(t)

SpecPipecatRetry == Init /\ [][NextPipecatRetry]_vars

\* a caller that queues text, disconnects and connects again, within the first
\* MaxWork sockets and MaxMsgs envelopes; no heartbeat tick falls in the run
SessionText ==
    /\ nextId <= MaxMsgs
    /\ sendCalled("sendTextMessage", "text_input", TRUE)

SessionConnect == nSockets < MaxWork /\ connectCalled

SessionTimer(t) ==
    /\ ~hung
    /\ nSockets < MaxWork
    /\ reconnectTimerFires(t)

NextSession ==
    \/ SessionText
    \/ SessionConnect
    \/ CallDisconnect
    \/ \E s \in Sockets : SocketOpen(s)
    \/ \E s \in Sockets, code \in CloseCodes : SocketClose(s, code)
    \/ \E s \in Sockets : SocketError(s)
    \/ \E t \in reconnectTimers : SessionTimer(t)

SpecSession == Init /\ [][NextSession]_vars

\* the UI streams audio and sends text and listening commands while the
\* connection opens, closes and reconnects; no heartbeat tick falls in the run
NextAudio ==
    \/ CallSendAudioData
    \/ \E r \in readers : ReaderLoad(r)
    \/ CallSendTextMessage
    \/ CallStartListening
    \/ CallStopListening
    \/ \E s \in Sockets : SocketOpen(s)
    \/ \E s \in Sockets, code \in CloseCodes : SocketClose(s, code)
    \/ \E s \in Sockets : SocketError(s)
    \/ \E t \in reconnectTimers : ReconnectTimer(t)

SpecAudio == Init /\ [][NextAudio]_vars

TypeOK ==
    /\ ws \in Sockets \cup {NULL}
    /\ readyState \in [Sockets -> ReadyStates]
    /\ established \subseteq Sockets
    /\ nSockets \in Sockets
    /\ isConnected \in BOOLEAN
    /\ reconnectAttempts \in 0..maxReconnectAttempts
    /\ heartbeatInterval \in Sockets \cup {NULL}
    /\ heartbeatTimeout \in TimeoutIds \cup {NO_TIMEOUT}
    /\ intervals \subseteq Sockets
    /\ timeouts \subseteq TimeoutIds
    /\ nextId \in 1..(MaxMsgs + 1)
    /\ Len(sent) <= MaxMsgs
    /\ Len(messageQueue) <= MaxMsgs
    /\ \A i \in 1..Len(messageQueue) :
           messageQueue[i].id \in MsgIds /\ messageQueue[i].type \in MsgTypes
    /\ status \in {"connecting", "connected", "disconnected", "failed", "error"}
    /\ hung \in BOOLEAN
    /\ failures \in 0..MaxSockets
    /\ forced \subseteq Sockets
    /\ unanswered \subseteq MsgIds
    /\ callbacks \in [CallbackSlots -> Callbacks \cup {NoCallback}]
    /\ \A i \in 1..Len(calls) : calls[i] \in CallbackSlots \X Callbacks
    /\ readers \subseteq MsgIds
    /\ dialled \subseteq Sockets
    /\ \A e \in EventNames : \A i \in 1..Len(eventHandlers[e]) :
           eventHandlers[e][i] \in Callbacks
    /\ \A i \in 1..Len(emitted) : emitted[i] \in EventNames \X Callbacks
    /\ pipecat.ws \in Sockets \cup {NULL}
    /\ pipecat.isConnected \in BOOLEAN
    /\ pipecat.readyState \in [Sockets -> ReadyStates]
    /\ pipecat.nSockets \in 0..MaxSockets
    /\ pipecat.opened \subseteq Sockets
    /\ \A t \in pipecat.timers :
           t[1] \in Sockets /\ t[2] \in 1..pipecatMaxDelay
    /\ pipecat.refused \subseteq 1..(pipecat.nextId - 1)

\* ============================================================== properties
SendOps == {"sendMessage", "sendTextMessage", "startListening", "stopListening"}
TimerOps == {"reconnectTimer", "heartbeatTick", "pongTimeout"}

\* the frames a complete in-order flush of q hands to the socket
FlushFrames(q) == [i \in 1..Len(q) |-> <<q[i].id, "flush">>]
Live(s) == readyState[s] \in {"CONNECTING", "OPEN"}

C2_OpenFlushesAll ==
    [][last'.op = "handleOpen" =>
          /\ ~last'.threw
          /\ ~hung'
          /\ messageQueue' = <<>>
          /\ sent' = sent \o FlushFrames(messageQueue)]_vars

\* C3 (as claimed): once disconnect() was called, and until the caller calls
\* connect(), no socket is created and no reconnect timer is scheduled.
C3_DisconnectIsTerminal ==
    [][(userDisconnected /\ userDisconnected') =>
          /\ nSockets' = nSockets
          /\ reconnectTimers' \subseteq reconnectTimers]_vars

\* C4 (as claimed): no timer started before disconnect() runs after it returns.
\* The handler that runs first after disconnect() can only be the callback of a
\* timer started earlier, so it is never a timer callback.
C4_NoTimerAfterDisconnect ==
    [][last.op = "disconnect" => last'.op \notin TimerOps]_vars

\* C5 (as claimed): a send while the client is not ready (isReady() false)
\* appends the envelope to the tail of the queue, transmits nothing and does not
\* throw.
C5_SendWhenNotReadyQueues ==
    [][(last'.op \in SendOps /\ ~isReady) =>
          /\ ~last'.threw
          /\ sent' = sent
          /\ Len(messageQueue') = Len(messageQueue) + 1
          /\ SubSeq(messageQueue', 1, Len(messageQueue)) = messageQueue
          /\ messageQueue'[Len(messageQueue')].id = nextId]_vars

\* C6 (as claimed): a send while the client is ready either transmits the
\* envelope or, when the transmission fails, leaves it in the queue.
C6_FailedSendIsQueued ==
    [][(last'.op \in SendOps /\ isReady) =>
          \/ \E i \in 1..Len(sent') : sent'[i][1] = nextId
          \/ \E i \in 1..Len(messageQueue') : messageQueue'[i].id = nextId]_vars

\* C7 (as claimed): a flush transmits a prefix of the queue and leaves the rest,
\* from the first failed envelope on, queued in its order; no envelope leaves
\* the queue without being transmitted.
C7_FlushStopsAtFailure ==
    [][last'.op = "handleOpen" =>
          \E k \in 0..Len(messageQueue) :
              /\ sent' = sent \o FlushFrames(SubSeq(messageQueue, 1, k))
              /\ messageQueue' = SubSeq(messageQueue, k + 1, Len(messageQueue))]_vars

\* C8: at most once: no envelope is handed to a socket twice, none is queued
\* twice, and none is still queued after it was handed to a socket.
C8_AtMostOnce ==
    /\ \A i, j \in 1..Len(sent) : i # j => sent[i][1] # sent[j][1]
    /\ \A i, j \in 1..Len(messageQueue) :
           i # j => messageQueue[i].id # messageQueue[j].id
    /\ \A i \in 1..Len(sent), j \in 1..Len(messageQueue) :
           sent[i][1] # messageQueue[j].id

\* C8 witness: after a disconnection, one envelope has left the queue through a
\* flush and reached a socket while another envelope is queued again.
C8_Witness ==
    /\ \E i \in 1..Len(sent) : sent[i][2] = "flush"
    /\ messageQueue # <<>>
    /\ \E s \in Sockets : readyState[s] = "CLOSED"

\* C9 (as claimed): connect() called while the current socket is connecting or
\* open changes nothing.
C9_ConnectIsNoOp ==
    [][(last'.op = "connect" /\ ws # NULL /\ Live(ws)) =>
          UNCHANGED <<ws, readyState, established, nSockets, isConnected,
                      reconnectAttempts, reconnectDelay, heartbeatInterval,
                      heartbeatTimeout, intervals, timeouts, reconnectTimers,
                      messageQueue, sent, status>>]_vars

\* C10: a close event with the clean code 1000 cancels and forgets the stored
\* heartbeat interval and pong timeout, leaves the client disconnected
\* (isConnected false, 'disconnected' reported), schedules no reconnect timer and
\* does not change reconnectAttempts.
C10_CleanCloseNoReconnect ==
    [][(last'.op = "handleClose" /\ last'.code = CLEAN_CLOSE) =>
          /\ heartbeatInterval' = NULL /\ heartbeatInterval \notin intervals'
          /\ heartbeatTimeout' = NO_TIMEOUT /\ heartbeatTimeout \notin timeouts'
          /\ ~isConnected'
          /\ status' = "disconnected"
          /\ reconnectTimers' = reconnectTimers
          /\ reconnectAttempts' = reconnectAttempts
          /\ reconnectDelay' = reconnectDelay]_vars

\* C10 witness: the clean close of a connection that had carried a heartbeat
\* ping has been handled; no heartbeat timer and no reconnect timer is pending.
C10_Witness ==
    /\ last.op = "handleClose"
    /\ last.code = CLEAN_CLOSE
    /\ \E i \in 1..Len(sent) : sent[i][2] = "direct"
    /\ intervals = {} /\ timeouts = {}
    /\ reconnectTimers = {}
    /\ status = "disconnected"

\* C11: a close event with a non-clean code while reconnectAttempts is below
\* maxReconnectAttempts clears the stored heartbeat handles, schedules exactly
\* one reconnect with the delay reconnectDelay had before the handler ran,
\* increments reconnectAttempts by one and leaves reconnectDelay at
\* min(2 * old reconnectDelay, maxReconnectDelay).
C11_NonCleanCloseSchedulesOne ==
    [][(/\ last'.op = "handleClose"
        /\ last'.code # CLEAN_CLOSE
        /\ reconnectAttempts < maxReconnectAttempts) =>
          /\ heartbeatInterval' = NULL /\ heartbeatInterval \notin intervals'
          /\ heartbeatTimeout' = NO_TIMEOUT
          /\ heartbeatTimeout \notin timeouts'
          /\ \E t \in reconnectTimers' \ reconnectTimers :
                 /\ reconnectTimers' = reconnectTimers \cup {t}
                 /\ t[2] = reconnectDelay
          /\ reconnectAttempts' = reconnectAttempts + 1
          /\ reconnectDelay' = Min(2 * reconnectDelay, maxReconnectDelay)]_vars

\* C11 witness: the close that schedules the last allowed reconnect, where the
\* doubled delay exceeds the cap and reconnectDelay is left at the cap.
C11_Witness ==
    /\ last.op = "handleClose" /\ last.code = ABNORMAL_CLOSE
    /\ reconnectAttempts = maxReconnectAttempts
    /\ reconnectDelay = maxReconnectDelay
    /\ reconnectTimers # {}
    /\ status = "disconnected"

\* C12: the close that ends the maxReconnectAttempts-th failed reconnect in a
\* row reports 'failed'; while 'failed' is the reported status no reconnect
\* timer, heartbeat interval or pong timeout is pending, and no socket is
\* created by any step other than a connect() call of the caller.
C12_FailedIsQuiet ==
    [][/\ (last'.op = "handleClose" /\ failures' > maxReconnectAttempts)
            => status' = "failed"
       /\ status' = "failed"
            => reconnectTimers' = {} /\ intervals' = {} /\ timeouts' = {}
       /\ (status = "failed" /\ last'.op # "connect")
            => nSockets' = nSockets]_vars

\* C13 as stated: the close that ends the fifth consecutive failed connection
\* attempt leaves the client in 'failed' with reconnectAttempts = 5.
C13_FiveFailuresIsFailed ==
    [][(last'.op = "handleClose" /\ failures' = maxReconnectAttempts) =>
          /\ status' = "failed"
          /\ reconnectAttempts' = maxReconnectAttempts]_vars

\* C13 amended: after every non-clean close reconnectAttempts is the number of
\* consecutive failures, at most maxReconnectAttempts; the fifth failure in a
\* row still schedules a reconnect (the fifth), and 'failed' is reported by
\* the sixth failure in a row and by no earlier one.
C13_SixFailuresIsFailed ==
    [][(last'.op = "handleClose" /\ last'.code # CLEAN_CLOSE) =>
          /\ reconnectAttempts' = Min(failures', maxReconnectAttempts)
          /\ status' = "failed" <=> failures' > maxReconnectAttempts
          /\ failures' <= maxReconnectAttempts =>
                /\ status' = "disconnected"
                /\ <<last'.id, reconnectDelay>> \in reconnectTimers']_vars

\* C13 witness: six attempts in a row have failed: the first socket and the
\* five reconnects; the client is 'failed' with reconnectAttempts = 5.
C13_Witness ==
    /\ failures = maxReconnectAttempts + 1
    /\ last.op = "handleClose" /\ last.id = maxReconnectAttempts + 1
    /\ status = "failed"
    /\ reconnectAttempts = maxReconnectAttempts
    /\ reconnectTimers = {}

RECURSIVE Pow2(_)
Pow2(k) == IF k = 0 THEN 1 ELSE 2 * Pow2(k - 1)

\* the delay the backoff rule gives the k-th reconnect of a run, k = 0, 1, ...
BackoffDelay(k) == Min(1000 * Pow2(k), 30000)

\* C14: in a run of consecutive failed connection attempts the k-th scheduled
\* reconnect (k counted from 0 by the failures that preceded it) is given the
\* delay min(1000 * 2^k, 30000), in WebSocketClient at every close that
\* schedules a reconnect and in PipecatWebSocketClient for every attempt its
\* close handler allows.
C14_BackoffDelays ==
    [][/\ (last'.op = "handleClose" /\ reconnectTimers' # reconnectTimers) =>
             reconnectTimers' \ reconnectTimers
                 = {<<last'.id, BackoffDelay(failures)>>}
       /\ \A k \in 0..(maxReconnectAttempts - 1) :
             attemptReconnect(pipecatAfter(k)).timer = BackoffDelay(k)]_vars

\* C14 witness: the reconnect scheduled after five failures in a row (k = 4)
\* is pending with a delay of 16000 ms, after those of 1000 .. 8000 ms fired.
C14_Witness ==
    /\ failures = maxReconnectAttempts
    /\ reconnectTimers = {<<maxReconnectAttempts, 16000>>}
    /\ nSockets = maxReconnectAttempts

\* C15: every 'open' event leaves reconnectAttempts at 0 and reconnectDelay at
\* the base delay, and the first reconnect scheduled after an open (no failure
\* since it) is given the base delay, whatever happened before that open.
C15_OpenResetsBackoff ==
    [][/\ last'.op = "handleOpen" =>
             /\ reconnectAttempts' = 0
             /\ reconnectDelay' = baseReconnectDelay
       /\ (/\ last'.op = "handleClose"
           /\ failures = 0
           /\ reconnectTimers' # reconnectTimers) =>
             reconnectTimers' \ reconnectTimers
                 = {<<last'.id, baseReconnectDelay>>}]_vars

\* C15 witness: two attempts failed (the delay grew to 4000 ms), the third
\* socket opened and then closed abnormally: its reconnect waits 1000 ms.
C15_Witness ==
    /\ last.op = "handleClose" /\ last.id = 3
    /\ failures = 1
    /\ reconnectTimers = {<<3, baseReconnectDelay>>}
    /\ reconnectAttempts = 1
    /\ reconnectDelay = 2 * baseReconnectDelay

\* C16: when a pong timeout fires (its ping was sent while connected and no
\* pong disarmed it) the callback closes the client's socket without throwing,
\* and the close event of a socket closed that way schedules a reconnect.
C16_TimeoutForcesReconnect ==
    [][/\ last'.op = "pongTimeout" =>
             /\ ~last'.threw
             /\ ws # NULL
             /\ readyState'[ws] \in {"CLOSING", "CLOSED"}
       /\ (last'.op = "handleClose" /\ last'.id \in forced) =>
             \E t \in reconnectTimers' \ reconnectTimers :
                 t[1] = last'.id]_vars

\* C17: at most one pong timeout is armed at any time, and a heartbeat tick
\* that sends a ping finds no pong timeout armed.
C17_OnePingOutstanding ==
    [][/\ Cardinality(timeouts') <= 1
       /\ (last'.op = "heartbeatTick" /\ nextId' # nextId) =>
             timeouts = {}]_vars

\* C18: a pong timeout fires only for a ping that no handled pong answered, so
\* with every ping answered in time the heartbeat closes no socket; and
\* handling a pong disarms the stored timeout and changes nothing else.
C18_PongDisarmsOnly ==
    [][/\ last'.op = "pongTimeout" => last'.id \in unanswered
       /\ last'.op = "handlePong" =>
             /\ heartbeatTimeout' = NO_TIMEOUT
             /\ timeouts' = timeouts \ {heartbeatTimeout}
             /\ UNCHANGED <<ws, readyState, established, nSockets,
                            isConnected, reconnectAttempts, reconnectDelay,
                            reconnectTimers, messageQueue, sent, nextId,
                            heartbeatInterval, intervals, status, hung>>]_vars

\* C19: every close event and every disconnect() leaves no heartbeat interval
\* running and no pong timeout armed; and while the heartbeat is stopped (no
\* stored interval) no tick sends or queues a ping and no pong timeout
\* callback closes a socket.
C19_StopCancelsAll ==
    [][/\ last'.op \in {"handleClose", "disconnect"} =>
             intervals' = {} /\ timeouts' = {}
       /\ (last'.op \in {"heartbeatTick", "pongTimeout"}
              /\ heartbeatInterval = NULL) =>
             UNCHANGED <<sent, messageQueue, readyState>>]_vars

\* C20: a transport 'error' event reports no connection status (the value
\* last passed to updateConnectionStatus stays what it was), schedules no
\* reconnect and leaves isConnected, the reconnect counters, the queue and
\* the heartbeat timers unchanged.
C20_ErrorChangesNothing ==
    [][last'.op = "handleError" =>
          /\ status' = status
          /\ UNCHANGED <<isConnected, reconnectAttempts, reconnectDelay,
                         reconnectTimers, messageQueue, heartbeatInterval,
                         heartbeatTimeout, intervals, timeouts>>]_vars

\* ------------------------------------------------------- inbound dispatch
\* connection state, queue, timers and callback fields of WebSocketClient
ClientState == <<ws, readyState, established, nSockets, isConnected,
                 reconnectAttempts, reconnectDelay, heartbeatInterval,
                 heartbeatTimeout, intervals, timeouts, reconnectTimers,
                 messageQueue, sent, nextId, status, hung, callbacks>>

\* handler tables of PipecatWebSocketClient with the same handlers on every event
PipecatTables ==
    {[e \in EventNames |-> l] : l \in {<<>>, <<"A">>, <<"A", "B">>}}

ValidResponse == [parses |-> TRUE, type |-> "response", data |-> TRUE]

\* C21: a frame that does not parse is discarded inside the message handler:
\* the exception is caught, no callback is invoked (nor any Pipecat event
\* handler), connection state, queue and timers stay as they were; and a
\* valid 'response' frame is dispatched to the registered onResponseReceived
\* whatever was discarded before it.
C21_ParseFailureDiscarded ==
    [][last'.op = "handleMessage" =>
          /\ ~last'.frame.parses =>
                /\ calls' = <<>>
                /\ last'.threw
                /\ UNCHANGED ClientState
                /\ \A h \in PipecatTables, bad \in SUBSET Callbacks :
                      pipecatOnMessage(h, NotJSON, bad) = <<>>
          /\ (last'.frame = ValidResponse
                /\ callbacks.onResponseReceived # NoCallback) =>
                calls' = <<<<"onResponseReceived", callbacks.onResponseReceived>>>>
      ]_vars

\* a valid response reached its callback right after a discarded frame
C21_Witness ==
    /\ last.op = "handleMessage"
    /\ last.frame = ValidResponse
    /\ last.afterDiscard
    /\ calls = <<<<"onResponseReceived", "A">>>>

\* C22: a frame that parses but whose type has no case in the switch is
\* dropped: no callback is invoked (nor any Pipecat event handler for a type
\* unknown to that client), nothing is raised, client state is unchanged.
C22_UnknownTypeDropped ==
    [][(last'.op = "handleMessage" /\ last'.frame.parses
          /\ last'.frame.type \notin ClientTypes) =>
          /\ calls' = <<>>
          /\ ~last'.threw
          /\ UNCHANGED ClientState
          /\ \A h \in PipecatTables, f \in FramesOf(ClientTypes) :
                (f.parses /\ f.type \notin PipecatEvents) =>
                   \A bad \in SUBSET Callbacks :
                      pipecatOnMessage(h, f, bad) = <<>>
      ]_vars

\* a frame of unknown type was handled with all four callbacks registered
C22_Witness ==
    /\ last.op = "handleMessage"
    /\ last.frame.parses
    /\ last.frame.type = "other"
    /\ \A k \in CallbackSlots : callbacks[k] # NoCallback
    /\ calls = <<>>

\* the callback a frame type is routed to, if any
SinkOf(type) ==
    CASE type = "transcription" -> "onTranscriptionUpdate"
      [] type = "response"      -> "onResponseReceived"
      [] type = "error"         -> "onError"
      [] OTHER                  -> NoCallback

\* C23: dispatch routes by type.  A 'pong' frame clears the stored pong
\* timeout and invokes no callback.  Any other frame invokes at most the one
\* callback of its own type (transcription -> onTranscriptionUpdate, response
\* -> onResponseReceived, error -> onError), and does invoke it, once, when
\* the frame carries data and that callback is registered.
C23_RoutesByType ==
    [][/\ last'.op = "handlePong" =>
             /\ calls' = <<>>
             /\ heartbeatTimeout' = NO_TIMEOUT
             /\ timeouts' = timeouts \ {heartbeatTimeout}
             /\ UNCHANGED callbacks
       /\ last'.op = "handleMessage" =>
             LET sink == SinkOf(last'.frame.type)
             IN  /\ \A i \in 1..Len(calls') : calls'[i][1] = sink
                 /\ (last'.frame.parses /\ last'.frame.data
                       /\ sink # NoCallback /\ callbacks[sink] # NoCallback) =>
                       calls' = <<<<sink, callbacks[sink]>>>>
      ]_vars

\* a transcription frame reached its callback with the other sinks registered
C23_Witness ==
    /\ last.op = "handleMessage"
    /\ last.frame.type = "transcription"
    /\ callbacks.onResponseReceived = "B"
    /\ callbacks.onError = "B"
    /\ callbacks.onConnectionChange = "B"
    /\ calls = <<<<"onTranscriptionUpdate", "A">>>>

\* C27: one handler slot per kind, the last registration wins: a frame of a
\* kind that has handlers registered invokes the handler registered last,
\* once, and no other.
C27_LastRegistrationWins ==
    [][(last'.op = "pipecatMessage" /\ last'.frame.parses
          /\ last'.frame.type \in PipecatEvents
          /\ eventHandlers[last'.frame.type] # <<>>) =>
          LET hs == eventHandlers[last'.frame.type]
          IN  emitted' = <<<<last'.frame.type, hs[Len(hs)]>>>>
      ]_vars

\* ----------------------------------------------------------- disconnect
\* C24: disconnect() leaves the outbound queue as it was, and when a socket
\* created by a later connect() opens, the queue is transmitted in order and
\* left empty.
C24_QueueSurvivesDisconnect ==
    [][/\ last'.op = "disconnect" => messageQueue' = messageQueue
       /\ (last'.op = "handleOpen" /\ last'.id \in dialled) =>
             /\ sent' = sent \o FlushFrames(messageQueue)
             /\ messageQueue' = <<>>
             /\ ~hung'
      ]_vars

\* ------------------------------------------------------- status reporting
\* the status values of the user-visible contract
UiStatuses == {"connecting", "connected", "disconnecting", "disconnected",
               "failed"}

\* C25: every value handed to a registered onConnectionChange and every value
\* getConnectionStatus can return is one of connecting, connected,
\* disconnecting, disconnected, failed.
C25_StatusValues ==
    [][/\ (callbacks.onConnectionChange # NoCallback /\ status' # status) =>
             status' \in UiStatuses
       /\ getConnectionStatus' \in UiStatuses
      ]_vars

\* C26: state notifications follow the transition table: 'connected' is
\* reported only directly after 'connecting', and 'disconnected' is never
\* reported for a non-clean close that schedules a reconnect.
C26_TransitionTable ==
    [][callbacks.onConnectionChange # NoCallback =>
          /\ (last'.op = "handleOpen" /\ status' = "connected") =>
                status = "connecting"
          /\ (last'.op = "handleClose" /\ last'.code # CLEAN_CLOSE
                /\ reconnectTimers' # reconnectTimers) =>
                status' # "disconnected"
      ]_vars

\* ------------------------------------------------------------ audio, flush
\* the envelope type each sending operation builds
TypeOf(op) ==
    CASE op = "sendAudioData"   -> "audio_data"
      [] op = "sendTextMessage" -> "text_input"
      [] op = "startListening"  -> "start_listening"
      [] op = "stopListening"   -> "stop_listening"

\* C28: sendAudioData, sendTextMessage, startListening and stopListening
\* called while the client is not connected each append exactly one envelope
\* of their type to the outbound queue.
C28_ThinCallsQueue ==
    [][(last'.op \in {"sendAudioData", "sendTextMessage", "startListening",
                      "stopListening"} /\ ~isConnected) =>
          /\ Len(messageQueue') = Len(messageQueue) + 1
          /\ SubSeq(messageQueue', 1, Len(messageQueue)) = messageQueue
          /\ messageQueue'[Len(messageQueue')].id = last'.id
          /\ messageQueue'[Len(messageQueue')].type = TypeOf(last'.op)
      ]_vars

\* the ids of the envelopes transmitted or queued so far
Placed == {sent[i][1] : i \in 1..Len(sent)}
             \cup {messageQueue[i].id : i \in 1..Len(messageQueue)}

\* C29: audio keeps call order: when the encoding of a buffer completes, its
\* audio_data envelope is transmitted or queued, exactly once, and no envelope
\* of a later call has been transmitted or queued before it.
C29_AudioKeepsCallOrder ==
    [][last'.op = "readerLoad" =>
          /\ \A i \in Placed : i < last'.id
          /\ \/ sent' = Append(sent, <<last'.id, "direct">>)
                   /\ messageQueue' = messageQueue
             \/ sent' = sent /\ Len(messageQueue') = Len(messageQueue) + 1
                   /\ messageQueue'[Len(messageQueue')].id = last'.id
      ]_vars

\* C30: the flush loop of every handled 'open' event ends, also when the
\* socket that opened is no longer this.ws.
C30_FlushTerminates ==
    [][last'.op = "handleOpen" => ~hung']_vars

\* ------------------------------------------------------------ invariants
\* C31: reconnectAttempts stays between 0 and maxReconnectAttempts.
C31_AttemptsBounded ==
    reconnectAttempts >= 0 /\ reconnectAttempts <= maxReconnectAttempts

\* a non-clean close was handled with the counter at its limit
C31_Witness ==
    /\ last.op = "handleClose"
    /\ last.code # CLEAN_CLOSE
    /\ reconnectAttempts = maxReconnectAttempts
    /\ status = "failed"

\* C32: at most one reconnect timer is pending.
C32_OneReconnectTimer == Cardinality(reconnectTimers) <= 1

\* C33: at most one socket carrying the client's handlers is connecting or
\* open.
C33_OneLiveSocket == Cardinality({s \in Sockets : Live(s)}) <= 1

\* C34: while isConnected is true, this.ws is a socket, and it is one whose
\* 'open' event was handled.
C34_ConnectedMeansOpenSocket ==
    isConnected => (ws # NULL /\ ws \in established)

\* C35: at most one heartbeat interval is running, and it is the one stored
\* in heartbeatInterval.
C35_OneHeartbeatInterval == intervals \subseteq {heartbeatInterval}

\* C36: the outbound queue never holds a 'ping' envelope, and a pong timeout
\* is armed only for a ping that was transmitted.
C36_PingNeverQueued ==
    /\ \A i \in 1..Len(messageQueue) : messageQueue[i].type # "ping"
    /\ \A t \in timeouts : \E i \in 1..Len(sent) : sent[i][1] = t[1]

\* ------------------------------------------------ PipecatWebSocketClient
\* C37: send called while isConnected is false or ws is null returns false,
\* transmits nothing and changes no field of the client; a message refused
\* this way is never transmitted, whatever connection follows.
C37_RefusedSendRetainsNothing ==
    [][/\ (last'.op = "pipecatSend"
             /\ (~pipecat.isConnected \/ pipecat.ws = NULL)) =>
             /\ ~last'.ret
             /\ pipecat' = [pipecat EXCEPT !.nextId = @ + 1,
                                           !.refused = @ \cup {last'.id}]
       /\ pipecat'.refused \cap {pipecat'.sent[i] : i \in 1..Len(pipecat'.sent)}
             = {}
      ]_vars

\* a socket opened and 'get_status' was transmitted after a refused send
C37_Witness ==
    /\ last.op = "pipecatOpen"
    /\ pipecat.isConnected
    /\ pipecat.refused # {}
    /\ pipecat.sent # <<>>

\* C38: a reconnect timer is armed only by a close whose code is not 1000
\* while reconnectAttempts < maxReconnectAttempts, and a socket is created
\* only by such a timer or by the caller's connect(); reconnectAttempts never
\* exceeds maxReconnectAttempts; a close handled when the count has reached
\* the maximum arms no timer, creates no socket and leaves the count alone.
C38_ReconnectLimited ==
    [][/\ pipecat'.reconnectAttempts <= pipecatMaxAttempts
       /\ ~(pipecat'.timers \subseteq pipecat.timers) =>
             /\ last'.op = "pipecatClose"
             /\ last'.code # CLEAN_CLOSE
             /\ pipecat.reconnectAttempts < pipecatMaxAttempts
             /\ pipecat'.reconnectAttempts = pipecat.reconnectAttempts + 1
       /\ pipecat'.nSockets # pipecat.nSockets =>
             last'.op \in {"pipecatTimer", "pipecatConnect"}
       /\ (last'.op = "pipecatClose" /\ last'.code = CLEAN_CLOSE) =>
             /\ pipecat'.timers = pipecat.timers
             /\ pipecat'.reconnectAttempts = pipecat.reconnectAttempts
       /\ (last'.op = "pipecatClose"
             /\ pipecat.reconnectAttempts = pipecatMaxAttempts) =>
             /\ pipecat'.timers = pipecat.timers
             /\ pipecat'.nSockets = pipecat.nSockets
             /\ pipecat'.reconnectAttempts = pipecatMaxAttempts
      ]_vars

\* the socket of the last allowed attempt closed abnormally and nothing is
\* scheduled
C38_Witness ==
    /\ last.op = "pipecatClose"
    /\ last.code # CLEAN_CLOSE
    /\ pipecat.reconnectAttempts = pipecatMaxAttempts
    /\ pipecat.timers = {}

\* the handlers a single emit of event e invokes: every entry of the event's
\* array, once, in array order
Invoked(e) == [i \in 1..Len(eventHandlers[e]) |-> <<e, eventHandlers[e][i]>>]

\* C39: on registers at the end of the event's array; an emit (from a message
\* of the event's type, from 'open' or from 'error') invokes every entry of
\* the array once in that order, whichever handlers throw, and no exception
\* reaches the socket event handler, which goes on to send 'get_status' after
\* 'connected'; off removes every entry of the handler, so that later emits
\* do not invoke it.
C39_EmitCallsEveryHandler ==
    [][/\ (last'.op = "pipecatMessage" /\ last'.frame.parses) =>
             /\ emitted' = (IF last'.frame.type \in PipecatEvents
                            THEN Invoked(last'.frame.type) ELSE <<>>)
             /\ ~last'.threw
       /\ last'.op = "pipecatError" =>
             emitted' = Invoked("error") /\ ~last'.threw
       /\ last'.op = "pipecatOpen" =>
             /\ emitted' = Invoked("connected") /\ ~last'.threw
             /\ pipecat'.sent = Append(pipecat.sent, pipecat.nextId)
       /\ last'.op = "on" =>
             \E e \in PipecatEvents, c \in Callbacks :
                eventHandlers' = [eventHandlers EXCEPT ![e] = Append(@, c)]
       /\ last'.op = "off" =>
             /\ \A i \in 1..Len(eventHandlers'[last'.event]) :
                   eventHandlers'[last'.event][i] # last'.handler
             /\ eventHandlers'[last'.event] =
                   SelectSeq(eventHandlers[last'.event],
                             LAMBDA x : x # last'.handler)
             /\ \A e \in EventNames \ {last'.event} :
                   eventHandlers'[e] = eventHandlers[e]
      ]_vars

\* two handlers of one event were invoked in registration order although the
\* first one threw
C39_Witness ==
    /\ last.op \in {"pipecatMessage", "pipecatError"}
    /\ Len(emitted) = 2
    /\ emitted[1][2] \in last.bad
    /\ emitted[1][2] # emitted[2][2]
    /\ eventHandlers[emitted[1][1]] = <<emitted[1][2], emitted[2][2]>>

====
